---- MODULE Spec2Model ----
(***************************************************************************)
(* Model of streamlit_app.py: the Supabase bulk exporter.                  *)
(*                                                                         *)
(* The script discovers the table list (list_user_tables, with the manual  *)
(* list as fallback), and on "Export ALL tables" fetches every table page  *)
(* by page (fetch_table_paginated), writes one CSV entry per table into a  *)
(* ZIP, optionally appends the SQL dump (download_sql_dump) and offers the *)
(* ZIP for download.  The REST server is the environment: every HTTP       *)
(* response is a nondeterministic input.                                   *)
(*                                                                         *)
(* Three specifications share the definitions:                             *)
(*   Spec        one call fetch_table_paginated(table, chunk), the inputs  *)
(*               (table size, chunk) drawn from bounded sets;              *)
(*   LiveSpec    Spec with the loop of the call scheduled fairly;          *)
(*   ExportSpec  one run of the script with a button pressed.              *)
(* Not modelled: the reruns of the script by Streamlit and the cache of    *)
(* list_user_tables (st.cache_data).                                       *)
(***************************************************************************)
EXTENDS Integers, Sequences, FiniteSets, TLC

(***************************************************************************)
(* Bounds of the model.                                                    *)
(***************************************************************************)
\* largest table, in rows
MaxRows == 3
\* largest chunk argument of a direct call
MaxChunk == 2
\* stand-in for the default chunk (10_000) the export handler uses
DefaultChunk == 2
\* rows a row-capping server returns per request at most
ServerMaxRows == 1
\* a Content-Range total beyond every table of the model (two digits)
BigTotal == 10

\* requests after which the model stops following a server that never
\* lets the loop end; one more than any terminating call can need
MaxRequests == MaxRows + 3

Min(a, b) == IF a <= b THEN a ELSE b
Max(a, b) == IF a >= b THEN a ELSE b

(***************************************************************************)
(* Strings are sequences of one-character strings, so that str.split and   *)
(* int() can be computed the way Python computes them.                     *)
(***************************************************************************)
Digits == <<"0", "1", "2", "3", "4", "5", "6", "7", "8", "9">>

DigitChars == {Digits[i] : i \in 1..10}

DigitValue(c) == (CHOOSE i \in 1..10 : Digits[i] = c) - 1

\* str(n) for n >= 0
RECURSIVE Dec(_)
Dec(n) == IF n < 10 THEN <<Digits[n + 1]>>
          ELSE Dec(n \div 10) \o <<Digits[(n % 10) + 1]>>

\* s.split(sep) with an explicit one-character separator: one part more
\* than there are separators, empty parts kept
RECURSIVE Split(_, _)
Split(s, sep) ==
  IF \A i \in 1..Len(s) : s[i] # sep
  THEN <<s>>
  ELSE LET i == CHOOSE k \in 1..Len(s) :
                  s[k] = sep /\ \A j \in 1..(k - 1) : s[j] # sep
       IN <<SubSeq(s, 1, i - 1)>> \o Split(SubSeq(s, i + 1, Len(s)), sep)

\* the digits of an int() literal, sign removed
Unsigned(s) == IF s # <<>> /\ s[1] \in {"+", "-"} THEN Tail(s) ELSE s

\* int(s) accepts an optional sign, then digits with single underscores
\* between them
IsIntLiteral(s) ==
  LET d == Unsigned(s) IN
  /\ d # <<>>
  /\ \A i \in 1..Len(d) : d[i] \in DigitChars \cup {"_"}
  /\ d[1] # "_"
  /\ d[Len(d)] # "_"
  /\ \A i \in 1..(Len(d) - 1) : ~(d[i] = "_" /\ d[i + 1] = "_")

RECURSIVE DigitsValue(_)
DigitsValue(d) ==
  IF d = <<>> THEN 0
  ELSE LET init == SubSeq(d, 1, Len(d) - 1)
           last == d[Len(d)]
       IN IF last = "_" THEN DigitsValue(init)
          ELSE 10 * DigitsValue(init) + DigitValue(last)

\* int(s) of a literal int() accepts
IntOf(s) == IF s # <<>> /\ s[1] = "-" THEN 0 - DigitsValue(Unsigned(s))
            ELSE DigitsValue(Unsigned(s))


(***************************************************************************)
(* The REST server (the environment).                                      *)
(***************************************************************************)
TableNames == {"t1", "t2"}

\* rows are identified by their position in the table: 0 .. n-1
Window(n, first, last) ==
  [i \in 1..Max(0, Min(last, n - 1) - first + 1) |-> first + i - 1]

WholeTable(n) == Window(n, 0, n - 1)

\* how the server treats the Range header of a request
\*   exact    returns exactly the requested window of the table
\*   capped   returns the window, cut to its own max-rows limit
\*   norange  ignores the offset and returns the head of the table
ServerModes == {"exact", "capped", "norange"}

ServedBatch(mode, n, first, last) ==
  CASE mode = "exact" -> Window(n, first, last)
    [] mode = "capped" -> Window(n, first, Min(last, first + ServerMaxRows - 1))
    [] mode = "norange" -> Window(n, 0, last - first)

\* a response header: absent, or present with a text
NoHeader == [present |-> FALSE, text |-> <<>>]

Hdr(text) == [present |-> TRUE, text |-> text]

ItemsUnit == <<"i", "t", "e", "m", "s">>

RangeText(first, last, total) ==
  Dec(first) \o <<"-">> \o Dec(last) \o <<"/">> \o total

\* the three-part format `unit start-end/total`
Range3(first, last, total) == ItemsUnit \o <<" ">> \o RangeText(first, last, total)

\* the Content-Range values a server may attach to a page
ContentRanges(n, first, last) ==
  { NoHeader,
    Hdr(<<>>),
    Hdr(RangeText(first, last, Dec(n))),
    Hdr(Range3(first, last, <<"*">>)),
    Hdr(Range3(first, last, Dec(0))),
    Hdr(Range3(first, last, Dec(n))),
    Hdr(Range3(first, last, Dec(last + 1))),
    Hdr(Range3(first, last, Dec(BigTotal))) }

StatusCodes == {200, 203, 206, 416, 500}

NoResp == [net |-> "none", status |-> 0, json |-> "none", batch |-> <<>>,
           content_range |-> NoHeader]

\* every answer the server (or the network) may give to GET table, Range first-last
Responses(mode, n, first, last) ==
  { [NoResp EXCEPT !.net = "error"] }
  \cup { [NoResp EXCEPT !.net = "ok", !.status = 200, !.json = "invalid"] }
  \cup { [net |-> "ok", status |-> s, json |-> "list",
          batch |-> IF s \in {416, 500} THEN <<>> ELSE ServedBatch(mode, n, first, last),
          content_range |-> h] :
         s \in StatusCodes, h \in ContentRanges(n, first, last) }

(***************************************************************************)
(* fetch_table_paginated                                                   *)
(***************************************************************************)
\* requests' Response.raise_for_status: raises for 4xx and 5xx only
RaisesForStatus(status) == status >= 400 /\ status < 600

\* mutants of the status check: every status but 200 raises; none raises
StatusRaises_Only200(status) == status # 200

StatusRaises_Never(status) == FALSE

\* if resp.status_code not in (200, 206): resp.raise_for_status()
StatusRaises(status) == status \notin {200, 206} /\ RaisesForStatus(status)

\* the page raises: requests.get, the status check or resp.json()
PageRaises(r) ==
  \/ r.net = "error"
  \/ StatusRaises(r.status)
  \/ r.json = "invalid"

\* `if content_range:`
Truthy(h) == h.present /\ h.text # <<>>

\* mutant: the two names of the second unpacking swapped, so that `total`
\* is the range and not the total
ParsedTotal_SwappedUnpack(h) ==
  LET parts == Split(h.text, " ") IN
  IF Len(parts) # 2 THEN [ok |-> FALSE, total |-> 0]
  ELSE LET rp == Split(parts[2], "/") IN
       IF Len(rp) # 2 THEN [ok |-> FALSE, total |-> 0]
       ELSE IF ~IsIntLiteral(rp[1]) THEN [ok |-> FALSE, total |-> 0]
       ELSE [ok |-> TRUE, total |-> IntOf(rp[1])]

\* _, range_part = content_range.split(" "); _, total = range_part.split("/");
\* total = int(total)  -- any failure is swallowed by `except Exception: pass`
ParsedTotal(h) ==
  LET parts == Split(h.text, " ") IN
  IF Len(parts) # 2 THEN [ok |-> FALSE, total |-> 0]
  ELSE LET rp == Split(parts[2], "/") IN
       IF Len(rp) # 2 THEN [ok |-> FALSE, total |-> 0]
       ELSE IF ~IsIntLiteral(rp[2]) THEN [ok |-> FALSE, total |-> 0]
       ELSE [ok |-> TRUE, total |-> IntOf(rp[2])]

\* the optional early stop: Content-Range present, parsed, start + chunk >= total
EarlyStop(h, st, ch) ==
  /\ Truthy(h)
  /\ ParsedTotal(h).ok
  /\ st + ch >= ParsedTotal(h).total

\* mutant: the empty batch does not end the loop
EmptyBatchBreaks_Never(batch) == FALSE

\* `if not batch: break`
EmptyBatchBreaks(batch) == batch = <<>>

\* `if resp.status_code == 200: break`
FinalPage(status) == status = 200

\* what one pass of the while loop ends in
PageOutcome(r, st, ch) ==
  IF PageRaises(r) THEN "raise"
  ELSE IF EmptyBatchBreaks(r.batch) THEN "break"
  ELSE IF FinalPage(r.status) THEN "break"
  ELSE IF EarlyStop(r.content_range, st, ch) THEN "break"
  ELSE "continue"

\* all_rows.extend(batch), reached only when the page did not raise
RowsAfter(rows, r) == IF PageRaises(r) THEN rows ELSE rows \o r.batch

\* mutants of the advance: no advance; advance by the rows received
NextStart_NoAdvance(st, ch, batch) == st

NextStart_ByBatch(st, ch, batch) == st + Len(batch)

\* start += chunk
NextStart(st, ch, batch) == st + ch

\* end = start + chunk - 1
EndOf(st, ch) == st + ch - 1

\* the Range header of a request: f"{start}-{end}"
RangeHeader(st, ch) == Dec(st) \o <<"-">> \o Dec(EndOf(st, ch))


(***************************************************************************)
(* list_user_tables and the fallback to the manual list.                   *)
(***************************************************************************)
\* stand-in for the 195 names of manual_table_list
manual_table_list == <<"t1", "t2">>

\* table lists the get_public_tables function may return
DiscoveredLists == {<<>>, <<"t2", "t1">>}

NoDiscovery == [net |-> "none", status |-> 0, body |-> "none", names |-> <<>>]

\* answers to POST /rest/v1/rpc/get_public_tables; body is
\*   rows     [{"name": ...}, ...] with the names in `names`
\*   norows   JSON whose elements have no "name"
\*   invalid  not JSON
DiscoveryAnswers ==
  { [NoDiscovery EXCEPT !.net = "error"] }
  \cup { [net |-> "ok", status |-> st, body |-> "rows", names |-> l] :
         st \in {200, 404}, l \in DiscoveredLists }
  \cup { [net |-> "ok", status |-> 200, body |-> b, names |-> <<>>] :
         b \in {"norows", "invalid"} }

\* mutant: the status of the discovery answer is not checked
DiscoveryStatusRaises_Never(status) == FALSE

\* if resp.status_code != 200: raise RuntimeError(...)
DiscoveryStatusRaises(status) == status # 200

\* the exception list_user_tables ends in, "none" when it returns
ListException(a) ==
  CASE a.net = "error" -> "ConnectionError"
    [] a.net = "ok" /\ DiscoveryStatusRaises(a.status) -> "RuntimeError"
    [] a.net = "ok" /\ ~DiscoveryStatusRaises(a.status) /\ a.body = "invalid" ->
         "JSONDecodeError"
    [] a.net = "ok" /\ ~DiscoveryStatusRaises(a.status) /\ a.body = "norows" ->
         "KeyError"
    [] OTHER -> "none"

ListRaises(a) == ListException(a) # "none"

\* `except Exception as exc` catches every one of them
CaughtByScript(exc) ==
  exc \in {"ConnectionError", "RuntimeError", "JSONDecodeError", "KeyError"}

\* try: discovered_tables = list_user_tables()
\* except Exception: discovered_tables = manual_table_list
DiscoveredTables(a) == IF ListRaises(a) THEN manual_table_list ELSE a.names

(***************************************************************************)
(* download_sql_dump.                                                      *)
(***************************************************************************)
\* a value of the JSON payload: absent (None) or a string
Absent == [present |-> FALSE, text |-> <<>>]

Value(text) == [present |-> TRUE, text |-> text]

\* base64 strings of the model ("U" is a data character): one that decodes
\* and one with incorrect padding
GoodB64 == Value(<<"U", "U", "U", "=">>)

BadB64 == Value(<<"U", "U", "U">>)

\* the values under "dump" and under "data" of the payloads of the model
DumpPayloads == { <<GoodB64, Absent>>, <<Absent, GoodB64>>, <<Absent, Absent>>,
                  <<Value(<<>>), Absent>>, <<Absent, Value(<<>>)>>,
                  <<Value(<<>>), GoodB64>>, <<BadB64, GoodB64>> }

NoDumpAnswer == [net |-> "none", status |-> 0, json |-> "none",
                 dump |-> Absent, data |-> Absent]

\* answers to POST /rest/v1/rpc/pg_dump
DumpAnswers ==
  { [NoDumpAnswer EXCEPT !.net = "error"] }
  \cup { [NoDumpAnswer EXCEPT !.net = "ok", !.status = 200, !.json = j] :
         j \in {"invalid", "other"} }
  \cup { [net |-> "ok", status |-> 200, json |-> "dict", dump |-> pl[1],
          data |-> pl[2]] : pl \in DumpPayloads }
  \cup { [net |-> "ok", status |-> 500, json |-> "dict", dump |-> GoodB64,
          data |-> Absent] }

Count(s, chars) == Cardinality({i \in 1..Len(s) : s[i] \in chars})

\* base64.b64decode accepts the text: the data characters fill whole quads,
\* or the last quad is completed by padding
B64Decodes(text) ==
  LET d == Count(text, {"U"})
      pad == Count(text, {"="})
  IN CASE d % 4 = 0 -> TRUE
       [] d % 4 = 1 -> FALSE
       [] d % 4 = 2 -> pad >= 2
       [] d % 4 = 3 -> pad >= 1

\* bytes base64.b64decode returns
B64Bytes(text) == (Count(text, {"U"}) * 6) \div 8

\* payload.get("dump") or payload.get("data")
B64Of(a) == IF Truthy(a.dump) THEN a.dump ELSE a.data

\* mutant: download_sql_dump without resp.raise_for_status()
DumpRaises_NoStatusCheck(a) ==
  \/ a.net = "error"
  \/ a.json # "dict"
  \/ ~B64Of(a).present
  \/ ~B64Decodes(B64Of(a).text)

\* download_sql_dump raises: requests.post, raise_for_status, resp.json(),
\* payload.get on a non-dict, or base64.b64decode of None or of a bad string
DumpRaises(a) ==
  \/ a.net = "error"
  \/ RaisesForStatus(a.status)
  \/ a.json # "dict"
  \/ ~B64Of(a).present
  \/ ~B64Decodes(B64Of(a).text)

NoDump == [state |-> "not called", answer |-> NoDumpAnswer]

(***************************************************************************)
(* ZIP entries and messages.                                               *)
(***************************************************************************)
\* zf.writestr(f"{tbl}.csv", df.to_csv(index=False).encode("utf-8"))
CsvEntry(tbl, rows) == [name |-> <<tbl, ".csv">>, data |-> rows]

\* zf.writestr("database.sql", dump_bytes)
SqlEntry(bytes) == [name |-> <<"database.sql">>, data |-> <<bytes>>]

Msg(kind, about) == <<kind, about>>

(***************************************************************************)
(* State.                                                                  *)
(***************************************************************************)
VARIABLES
  tableSize,                  \* server: rows of each table
  serverMode,                 \* server: how it treats Range
  SUPABASE_SERVICE_ROLE_KEY,  \* st.secrets.get("SUPABASE_SERVICE_ROLE_KEY")
  pc,                         \* where the script is
  discovered_tables,          \* the table list of the run
  idx,                        \* position of `tbl` in discovered_tables
  table,                      \* fetch_table_paginated: the table argument
  chunk,                      \* fetch_table_paginated: the chunk argument
  all_rows,                   \* fetch_table_paginated: rows collected
  start,                      \* fetch_table_paginated: offset of the next window
  fstate,                     \* fetch_table_paginated: idle, running, returned, raised
  requests,                   \* Range headers sent by the current call, in order
  resp,                       \* the last answer to requests.get in the call
  hist,                       \* what the server did so far in the call
  zip,                        \* entries written to the ZipFile, in order
  dump,                       \* the export's download_sql_dump call and its answer
  disc,                       \* the answer to the discovery call
  badPage,                    \* tables of the run with a page request that failed
  ui                          \* messages shown to the user, in order

vars == <<tableSize, serverMode, SUPABASE_SERVICE_ROLE_KEY, pc, discovered_tables,
          idx, table, chunk, all_rows, start, fstate, requests, resp, hist, zip,
          dump, disc, badPage, ui>>

envVars == <<tableSize, serverMode, SUPABASE_SERVICE_ROLE_KEY>>

fetchVars == <<table, chunk, all_rows, start, fstate, requests, resp, hist>>

\* the locals of a call
localVars == <<table, chunk, all_rows, start, fstate, requests>>

scriptVars == <<pc, discovered_tables, idx, zip, dump, disc, badPage, ui>>

\* the server's record in a call: every answer so far ...
\*   faithful     had status 200 or 206 and exactly the requested window
\*   protocol     was faithful, with 206 on a non-final and 200 on the final page
\*   emptyBeyond  was empty if its window started at or beyond the end of the table
NoHist == [faithful |-> TRUE, protocol |-> TRUE, emptyBeyond |-> TRUE]

\* no Content-Range of the model states a larger total
MaxTotal == BigTotal + MaxRequests * (MaxChunk + DefaultChunk)

\* the totals t for which the header is the three-part `items first-last/t`
StatedTotals(h, first, last) ==
  {t \in 0..MaxTotal : h = Hdr(Range3(first, last, Dec(t)))}

HistAfter(h, r, n, st, ch) ==
  LET exact == /\ r.net = "ok"
               /\ r.json = "list"
               /\ r.batch = Window(n, st, EndOf(st, ch))
  IN [faithful |-> h.faithful /\ exact /\ r.status \in {200, 206},
      protocol |-> /\ h.protocol
                   /\ exact
                   /\ r.status = (IF st + ch >= n THEN 200 ELSE 206),
      emptyBeyond |-> /\ h.emptyBeyond
                      /\ (st >= n /\ r.net = "ok" /\ r.json = "list") => r.batch = <<>>]

\* the call fetch_table_paginated(tbl, ch) begins: all_rows = [], start = 0
BeginFetch(tbl, ch) ==
  /\ table' = tbl
  /\ chunk' = ch
  /\ all_rows' = <<>>
  /\ start' = 0
  /\ fstate' = "running"
  /\ requests' = <<>>

\* the locals after one pass of the while loop with the answer r; a `break`
\* falls through to `return pd.DataFrame(all_rows)`
AfterPage(r) ==
  [requests |-> Append(requests, RangeHeader(start, chunk)),
   all_rows |-> RowsAfter(all_rows, r),
   fstate |-> CASE PageOutcome(r, start, chunk) = "raise" -> "raised"
                [] PageOutcome(r, start, chunk) = "break" -> "returned"
                [] OTHER -> "running",
   start |-> IF PageOutcome(r, start, chunk) = "continue"
             THEN NextStart(start, chunk, r.batch)
             ELSE start]

\* a pass of the loop can be taken
CanFetch == fstate = "running" /\ Len(requests) < MaxRequests

\* one pass of the while loop with the answer r
FetchPage(r) ==
  /\ CanFetch
  /\ requests' = AfterPage(r).requests
  /\ all_rows' = AfterPage(r).all_rows
  /\ fstate' = AfterPage(r).fstate
  /\ start' = AfterPage(r).start
  /\ UNCHANGED <<table, chunk>>

\* the answers the server may give to the request the call is about to send
Answers == Responses(serverMode, tableSize[table], start, EndOf(start, chunk))

(***************************************************************************)
(* Spec: one direct call fetch_table_paginated(table, chunk).              *)
(***************************************************************************)
KeyValues == {"None", "", "service-role-key"}

\* truthiness of the key in `if SUPABASE_SERVICE_ROLE_KEY:`
KeyConfigured(key) == key \notin {"None", ""}

CallInit ==
  /\ tableSize \in [TableNames -> 0..MaxRows]
  /\ \A t \in TableNames : tableSize[t] = tableSize["t1"]
  /\ serverMode \in ServerModes
  /\ SUPABASE_SERVICE_ROLE_KEY = "None"
  /\ pc = "call"
  /\ discovered_tables = <<>>
  /\ idx = 0
  /\ table = "t1"
  /\ chunk \in 1..MaxChunk
  /\ all_rows = <<>>
  /\ start = 0
  /\ fstate = "running"
  /\ requests = <<>>
  /\ resp = NoResp
  /\ hist = NoHist
  /\ zip = <<>>
  /\ dump = NoDump
  /\ disc = NoDiscovery
  /\ badPage = {}
  /\ ui = <<>>

\* a pass of the loop of the call; the answer and the server's record are
\* kept for the properties
CallPage ==
  /\ pc = "call"
  /\ \E r \in Answers :
       /\ FetchPage(r)
       /\ resp' = r
       /\ hist' = HistAfter(hist, r, tableSize[table], start, chunk)
  /\ UNCHANGED envVars
  /\ UNCHANGED scriptVars

CallNext == CallPage

Spec == CallInit /\ [][CallNext]_vars


\* the scheduler runs the loop of a call that has not returned or raised
LiveSpec == CallInit /\ [][CallNext]_vars /\ WF_vars(CallNext)

(***************************************************************************)
(* ExportSpec: one run of the script, with a button pressed.               *)
(***************************************************************************)
\* table sizes of the run: empty, more than one page
ExportSizes == {0, DefaultChunk + 1}

ExportInit ==
  /\ tableSize \in [TableNames -> ExportSizes]
  /\ serverMode \in ServerModes
  /\ SUPABASE_SERVICE_ROLE_KEY \in KeyValues
  /\ pc = "discover"
  /\ discovered_tables = <<>>
  /\ idx = 0
  /\ table = "t1"
  /\ chunk = DefaultChunk
  /\ all_rows = <<>>
  /\ start = 0
  /\ fstate = "idle"
  /\ requests = <<>>
  /\ resp = NoResp
  /\ hist = NoHist
  /\ zip = <<>>
  /\ dump = NoDump
  /\ disc = NoDiscovery
  /\ badPage = {}
  /\ ui = <<>>

\* Step 1 of the script: the table list, discovered or manual
Discover ==
  /\ pc = "discover"
  /\ \E a \in DiscoveryAnswers :
       /\ disc' = a
       /\ IF ListRaises(a) /\ ~CaughtByScript(ListException(a))
          THEN /\ pc' = "crashed"
               /\ UNCHANGED <<discovered_tables, ui>>
          ELSE /\ pc' = "rendered"
               /\ discovered_tables' = DiscoveredTables(a)
               /\ ui' = ui \o <<Msg(IF ListRaises(a) THEN "warning" ELSE "success",
                                    "discover"),
                                Msg("success", "ready")>>
  /\ UNCHANGED envVars
  /\ UNCHANGED fetchVars
  /\ UNCHANGED <<idx, zip, dump, badPage>>

\* where the handler goes when the loop over the tables is over
AfterTables == IF KeyConfigured(SUPABASE_SERVICE_ROLE_KEY) THEN "dump" ELSE "ready"

\* st.success("Export ready!") after the download button, which is unconditional
ExportReady == <<Msg("success", "export ready")>>

\* the messages between the end of the table loop and the next request of
\* the handler: without a key nothing is requested any more, the download
\* button is offered and the export reported ready
MsgsAfterTables ==
  IF KeyConfigured(SUPABASE_SERVICE_ROLE_KEY) THEN <<>> ELSE ExportReady

\* the button is pressed: the ZipFile is opened and the loop reaches its
\* first request (or is over at once, for an empty table list)
ClickExport ==
  /\ pc = "rendered"
  /\ zip' = <<>>
  /\ IF discovered_tables = <<>>
     THEN /\ pc' = AfterTables
          /\ ui' = ui \o MsgsAfterTables
          /\ UNCHANGED idx
          /\ UNCHANGED localVars
     ELSE /\ pc' = "export"
          /\ idx' = 1
          /\ ui' = Append(ui, Msg("info", discovered_tables[1]))
          /\ BeginFetch(discovered_tables[1], DefaultChunk)
  /\ UNCHANGED envVars
  /\ UNCHANGED <<discovered_tables, dump, disc, badPage, resp, hist>>

\* the page request did not succeed: no answer, an error status, or no JSON
PageFailed(r) == r.net # "ok" \/ r.status >= 400 \/ r.json # "list"

\* the ZIP after the try block of table tbl, whose fetch ended as `p`
ZipAfterTable(z, tbl, p) ==
  IF p.fstate = "returned" THEN Append(z, CsvEntry(tbl, p.all_rows)) ELSE z

\* the messages of the try block of table tbl, whose fetch ended as `p`
MsgsAfterTable(tbl, p) ==
  IF p.fstate = "returned"
  THEN (IF p.all_rows = <<>> THEN <<Msg("warning", tbl)>> ELSE <<>>)
       \o <<Msg("success", tbl)>>
  ELSE <<Msg("error", tbl)>>

\* one request of the table loop.  A page that ends the fetch also ends the
\* try block (CSV entry written, or the error shown) and takes the loop to
\* the next table's first request, or out of the loop.  The answers are not
\* kept: the run is observed through the ZIP and the messages.
ExportPage ==
  /\ pc = "export"
  /\ CanFetch
  /\ \E r \in Answers :
       LET p == AfterPage(r) IN
       /\ badPage' = IF PageFailed(r) THEN badPage \cup {table} ELSE badPage
       /\ IF p.fstate = "running"
          THEN /\ FetchPage(r)
               /\ UNCHANGED <<pc, idx, zip, ui>>
          ELSE /\ zip' = ZipAfterTable(zip, table, p)
               /\ IF idx < Len(discovered_tables)
                  THEN /\ idx' = idx + 1
                       /\ pc' = "export"
                       /\ ui' = ui \o MsgsAfterTable(table, p)
                                   \o <<Msg("info", discovered_tables[idx + 1])>>
                       /\ BeginFetch(discovered_tables[idx + 1], DefaultChunk)
                  ELSE /\ pc' = AfterTables
                       /\ ui' = ui \o MsgsAfterTable(table, p) \o MsgsAfterTables
                       /\ FetchPage(r)
                       /\ UNCHANGED idx
  /\ UNCHANGED envVars
  /\ UNCHANGED <<discovered_tables, dump, disc, resp, hist>>

\* the optional SQL dump, then the download button
DumpStep ==
  /\ pc = "dump"
  /\ \E a \in DumpAnswers :
       IF DumpRaises(a)
       THEN /\ dump' = [state |-> "failed", answer |-> a]
            /\ zip' = zip
            /\ ui' = ui \o <<Msg("info", "dump"), Msg("warning", "dump")>>
                        \o ExportReady
       ELSE /\ dump' = [state |-> "ok", answer |-> a]
            /\ zip' = Append(zip, SqlEntry(B64Bytes(B64Of(a).text)))
            /\ ui' = ui \o <<Msg("info", "dump"), Msg("success", "dump")>>
                        \o ExportReady
  /\ pc' = "ready"
  /\ UNCHANGED envVars
  /\ UNCHANGED fetchVars
  /\ UNCHANGED <<discovered_tables, idx, disc, badPage>>

\* the other button, shown with a configured key: only the SQL dump, offered
\* for download or reported as failed; the ZIP is not involved
ClickDumpOnly ==
  /\ pc = "rendered"
  /\ KeyConfigured(SUPABASE_SERVICE_ROLE_KEY)
  /\ \E a \in DumpAnswers :
       ui' = ui \o <<Msg(IF DumpRaises(a) THEN "error" ELSE "success", "dump only")>>
  /\ pc' = "dump only"
  /\ UNCHANGED envVars
  /\ UNCHANGED fetchVars
  /\ UNCHANGED <<discovered_tables, idx, zip, dump, disc, badPage>>

ExportNext == Discover \/ ClickExport \/ ExportPage \/ DumpStep \/ ClickDumpOnly

ExportSpec == ExportInit /\ [][ExportNext]_vars

(***************************************************************************)
(* Properties of fetch_table_paginated.                                    *)
(***************************************************************************)
\* rows of the table the call reads
N == tableSize[table]

\* pages of `ch` rows a table of n rows has
Pages(n, ch) == (n + ch - 1) \div ch

\* the window a Range header text "first-last" asks for
WindowAsked(text) ==
  LET parts == Split(text, "-") IN
  IF Len(parts) = 2 /\ IsIntLiteral(parts[1]) /\ IsIntLiteral(parts[2])
  THEN <<IntOf(parts[1]), IntOf(parts[2])>>
  ELSE <<-1, -1>>

\* the answer was a page: a 200 or 206 whose body is a JSON list
IsPage(r) == r.net = "ok" /\ r.json = "list" /\ r.status \in {200, 206}

\* C1: for a table of exactly `chunk` rows whose server answers every request
\* with status 200 or 206 and the requested window, whatever Content-Range it
\* attaches, the call never raises, sends at most two requests, has returned
\* once the second is answered, and returns the rows of the table, each once.
C1_ExactlyChunkRows ==
  (N = chunk /\ hist.faithful) =>
    /\ fstate \in {"running", "returned"}
    /\ Len(requests) <= 2
    /\ (Len(requests) = 2 => fstate = "returned")
    /\ (Len(requests) >= 1 => all_rows = WholeTable(N))

\* the first page came full with 206 and no usable total, the second window
\* was requested, came back empty and ended the call
C1_Witness ==
  /\ N = chunk
  /\ hist.faithful
  /\ fstate = "returned"
  /\ Len(requests) = 2
  /\ resp.status = 206
  /\ resp.batch = <<>>
  /\ all_rows = WholeTable(N)

\* C2: for a table of chunk + 1 rows whose server answers every request with
\* status 200 or 206 and the requested window, the call returns all
\* chunk + 1 rows.
C2_NoTruncation ==
  (N = chunk + 1 /\ hist.faithful /\ fstate = "returned") =>
    all_rows = WholeTable(N)

\* C3: when the answer to the first window has status 200 or 206 and an empty
\* batch, the call has returned, with zero rows, after that one request; and
\* an empty table whose server answers with pages is never asked twice.
C3_EmptyTable ==
  /\ (Len(requests) = 1 /\ IsPage(resp) /\ resp.batch = <<>>) =>
       (fstate = "returned" /\ all_rows = <<>>)
  /\ (N = 0 /\ hist.faithful) =>
       (Len(requests) <= 1 /\ fstate # "raised" /\ all_rows = <<>>)

C3_Witness ==
  /\ N = 0
  /\ Len(requests) = 1
  /\ resp.status = 206
  /\ IsPage(resp)
  /\ resp.batch = <<>>
  /\ fstate = "returned"

\* C4: against a server that returns exactly the requested window and
\* answers 206 on every non-final and 200 on the final page, the call does
\* not raise and returns the whole table: all rows, in order, each once.
C4_FullTable ==
  hist.protocol =>
    /\ fstate # "raised"
    /\ (fstate = "returned" => all_rows = WholeTable(N))

\* C8: if the server answers every window that starts at or beyond the end
\* of the table with an empty batch, the call returns or raises.
C8_Terminates == <>(fstate # "running" \/ ~hist.emptyBeyond)

\* a call that ran to the window beyond the end of a table of several pages,
\* on 206 pages throughout, and ended on the empty batch
C8_Witness ==
  /\ hist.emptyBeyond
  /\ N >= 2
  /\ Len(requests) = Pages(N, chunk) + 1
  /\ Len(requests) >= 3
  /\ resp.status = 206
  /\ resp.batch = <<>>
  /\ fstate = "returned"

\* the three-part Content-Range of the answer states a total that
\* start + chunk has reached
TotalReached(r, st, ch) ==
  \E t \in StatedTotals(r.content_range, st, EndOf(st, ch)) : st + ch >= t

\* the Content-Range of the answer is absent or not `unit start-end/<number>`
NoUsableTotal(r, st, ch) == StatedTotals(r.content_range, st, EndOf(st, ch)) = {}

\* C9: in a pass of the loop, a page with status 200 ends the call; a 206
\* page whose Content-Range states a total with start + chunk >= total ends
\* the call; a non-empty 206 page whose Content-Range is absent or
\* unparseable neither ends nor fails the call, which goes on to the window
\* at start + chunk.
C9_LoopEnds ==
  [][ Len(requests') = Len(requests) + 1 =>
        /\ (resp'.net = "ok" /\ resp'.status = 200 => fstate' # "running")
        /\ (IsPage(resp') /\ resp'.status = 200 => fstate' = "returned")
        /\ (resp'.status = 206 /\ TotalReached(resp', start, chunk) =>
              fstate' = "returned")
        /\ (resp'.status = 206 /\ resp'.batch # <<>>
              /\ NoUsableTotal(resp', start, chunk) =>
              (fstate' = "running" /\ start' = start + chunk)) ]_vars

\* a non-empty 206 page stating a reached total ended the call
C9_Witness ==
  /\ fstate = "returned"
  /\ resp.status = 206
  /\ resp.batch # <<>>
  /\ TotalReached(resp, start, chunk)
  /\ Len(requests) >= 2

\* C10: the k-th request of a call (k = 0, 1, ...) asks for the window
\* [k*chunk, k*chunk + chunk - 1], whatever the earlier batches held; no
\* window is asked for twice; a running call is about to ask for the next.
C10_Windows ==
  /\ \A k \in 1..Len(requests) :
       WindowAsked(requests[k]) = <<(k - 1) * chunk, (k - 1) * chunk + chunk - 1>>
  /\ \A j, k \in 1..Len(requests) : j # k => requests[j] # requests[k]
  /\ (fstate = "running" => start = Len(requests) * chunk)

\* a short batch was followed by a request for the next full window
C10_Witness ==
  /\ serverMode = "capped"
  /\ chunk > ServerMaxRows
  /\ Len(requests) >= 2
  /\ all_rows # <<>>
  /\ Len(all_rows) < start
  /\ fstate = "running"


(***************************************************************************)
(* Properties of the export run.                                           *)
(***************************************************************************)
RECURSIVE SeqMap1(_, _)
\* the i-th components of the elements of a sequence of tuples
SeqMap1(q, i) == IF q = <<>> THEN <<>> ELSE <<Head(q)[i]>> \o SeqMap1(Tail(q), i)

IsFetchInfo(m) == m[1] = "info" /\ m[2] \in TableNames

\* the tables whose fetch was announced ("Fetching tbl"), in order
AttemptedTables == SeqMap1(SelectSeq(ui, IsFetchInfo), 2)

IsCsv(e) == Len(e.name) = 2 /\ e.name[2] = ".csv"

\* the tables with a CSV entry in the ZIP, in the order of the entries
CsvTables == [i \in 1..Len(SelectSeq(zip, IsCsv)) |-> SelectSeq(zip, IsCsv)[i].name[1]]

HasEntry(name) == \E i \in 1..Len(zip) : zip[i].name = name

NoBadPage(t) == t \notin badPage

\* tables whose try block is over
TablesDone == IF pc = "export" THEN idx - 1 ELSE Len(discovered_tables)

\* tables whose fetch has begun
TablesTried == IF pc = "export" THEN idx ELSE Len(discovered_tables)

\* C5: in an export run the tables are attempted once each, in list order;
\* the ZIP holds a CSV entry exactly for the finished tables all of whose
\* page requests succeeded, in list order, whatever happened to the tables
\* before and after them; a table with a failed page request has its error
\* shown and is not being fetched any more.
C5_TableIsolation ==
  pc \in {"export", "dump", "ready"} =>
    /\ AttemptedTables = SubSeq(discovered_tables, 1, TablesTried)
    /\ CsvTables = SelectSeq(SubSeq(discovered_tables, 1, TablesDone), NoBadPage)
    /\ \A i \in 1..Len(discovered_tables) :
         discovered_tables[i] \in badPage =>
           /\ i <= TablesDone
           /\ \E k \in 1..Len(ui) : ui[k] = Msg("error", discovered_tables[i])

\* the last table failed on a later page, rows of it already fetched: it has
\* no entry, the table before it keeps its entry, the run went on
C5_Witness ==
  /\ pc \in {"dump", "ready"}
  /\ Len(discovered_tables) = 2
  /\ discovered_tables[2] \in badPage
  /\ fstate = "raised"
  /\ Len(requests) >= 2
  /\ all_rows # <<>>
  /\ CsvTables = <<discovered_tables[1]>>

\* C6 as stated: after a non-200 answer to the discovery call the table list
\* is empty and the script has not stopped on an exception.
C6_Original ==
  (disc.net = "ok" /\ disc.status # 200) =>
    (discovered_tables = <<>> /\ pc # "crashed")

\* C6 amended: after a non-200 answer to the discovery call the table list
\* is the manual list, the fallback is announced by a warning, and the script
\* has not stopped on an exception.
C6_ManualFallback ==
  (disc.net = "ok" /\ disc.status # 200) =>
    /\ discovered_tables = manual_table_list
    /\ pc # "crashed"
    /\ ui[1] = Msg("warning", "discover")

\* a 404 whose body names other tables; the manual tables were exported
C6_Witness ==
  /\ disc.status = 404
  /\ disc.names # manual_table_list
  /\ disc.names # <<>>
  /\ pc = "ready"
  /\ CsvTables = manual_table_list

SqlName == <<"database.sql">>

\* C7, in every state: the dump is called only with a configured key and
\* after all tables were attempted; once the ZIP is offered it holds
\* database.sql exactly if the key is configured and the dump call returned;
\* an entry means an answer without error status that carries a value under
\* "dump" or "data"; the export is reported ready exactly when the ZIP is
\* offered; the script never stops on an exception.
C7_DumpState ==
  /\ (pc = "dump" \/ dump.state # "not called") =>
       /\ KeyConfigured(SUPABASE_SERVICE_ROLE_KEY)
       /\ AttemptedTables = discovered_tables
       /\ TablesDone = Len(discovered_tables)
  /\ dump.state # "not called" => pc = "ready"
  /\ pc = "ready" =>
       /\ HasEntry(SqlName) <=>
            (KeyConfigured(SUPABASE_SERVICE_ROLE_KEY) /\ dump.state = "ok")
       /\ KeyConfigured(SUPABASE_SERVICE_ROLE_KEY) => dump.state # "not called"
  /\ pc # "ready" => ~HasEntry(SqlName)
  /\ pc = "ready" <=> (ui # <<>> /\ ui[Len(ui)] = Msg("success", "export ready"))
  /\ HasEntry(SqlName) =>
       /\ zip[Len(zip)].name = SqlName
       /\ dump.answer.net = "ok"
       /\ dump.answer.status < 400
       /\ (dump.answer.dump.present \/ dump.answer.data.present)
  /\ pc # "crashed"

\* C7, in every step of the dump: the ZIP is offered next, the entries
\* written before are kept as they are, and a failed dump adds nothing.
C7_DumpStep ==
  pc = "dump" =>
    /\ pc' = "ready"
    /\ SubSeq(zip', 1, Len(zip)) = zip
    /\ Len(zip') <= Len(zip) + 1
    /\ dump'.state = "failed" => zip' = zip

\* C7: the SQL dump is optional and last (C7_DumpState), and its failure
\* leaves the CSV entries alone and the ZIP offered (C7_DumpStep).
C7_OptionalDump == []C7_DumpState /\ [][C7_DumpStep]_vars

\* the dump failed on a payload that does not decode; the CSV entries are in
\* the ZIP that is offered
C7_Witness ==
  /\ pc = "ready"
  /\ KeyConfigured(SUPABASE_SERVICE_ROLE_KEY)
  /\ dump.state = "failed"
  /\ dump.answer.status = 200
  /\ dump.answer.dump = BadB64
  /\ Len(zip) = 2
  /\ ~HasEntry(SqlName)

====
